---- MODULE Spec2Model ----
(***************************************************************************)
(* Model of the feed updater (app/cmd/feed.go and the provider adapters in *)
(* app/feed): one run of RunFeedUpdate loads state.json and entries.json,  *)
(* polls the three providers in order, and, when an entry was added,       *)
(* writes state.json, entries.json and feed.xml.                           *)
(*                                                                         *)
(* Strings are sequences of tokens (one token per character or per markup  *)
(* fragment).  A timestamp text is a record [fmt, lead, t, off]: its       *)
(* layout, whether it carries leading white space, its local wall-clock    *)
(* reading t (in clock units, printed fixed-width) and its zone offset.    *)
(***************************************************************************)
EXTENDS Integers, Sequences, FiniteSets, TLC

VARIABLES
    diskState,    \* data/state.json: provider -> identity (NoID: key absent)
    diskEntries,  \* data/entries.json: the persisted entry list
    diskFeed,     \* feed.xml: the outbound document (NoFeed: file absent)
    pc,           \* position of the current run inside RunFeedUpdate
    state,        \* state.Latest of the running process
    entries,      \* entries slice of the running process
    idx,          \* index of the provider the loop polls next
    updated,      \* RunFeedUpdate's updated flag
    firstErr,     \* RunFeedUpdate's firstErr ("nil" or the failing source)
    result,       \* what the last finished run returned
    now,          \* the clock read by time.Now()
    runs,         \* number of runs started
    loaded,       \* the entry list the current run read from entries.json
    polled,       \* per provider, what the current run fetched and did
    writes,       \* the artifacts the current run has written
    http          \* the call of fetchFeed in progress

vars == <<diskState, diskEntries, diskFeed, pc, state, entries, idx, updated,
          firstErr, result, now, runs, loaded, polled, writes, http>>

(***************************************************************************)
(* Bounds of the model.                                                    *)
(***************************************************************************)
\* The number of runs of the program, one after the other, over the same
\* data directory.  The first run finds one of SeedEntryLists, among them a
\* list that an earlier run has written to.
MaxRuns == 1
\* Clock readings per printed time unit: two readings of time.Now() within
\* one unit print the same RFC 3339 text.
TicksPerUnit == 2
\* The clock unit at which the first run starts (after every seeded date).
NowBase == 50

(***************************************************************************)
(* strings.TrimSpace, strings.ToLower, strings.Contains on token strings.  *)
(***************************************************************************)
IsSpace(c) == c = " "

RECURSIVE TrimLeft(_)
TrimLeft(s) ==
    IF s = <<>> THEN <<>>
    ELSE IF IsSpace(Head(s)) THEN TrimLeft(Tail(s)) ELSE s

RECURSIVE TrimRight(_)
TrimRight(s) ==
    IF s = <<>> THEN <<>>
    ELSE IF IsSpace(s[Len(s)]) THEN TrimRight(SubSeq(s, 1, Len(s) - 1)) ELSE s

TrimSpace(s) == TrimRight(TrimLeft(s))

LowerTok(c) ==
    CASE c = "<IFRAME" -> "<iframe"
      [] c = "</IFRAME>" -> "</iframe>"
      [] OTHER -> c

ToLower(s) == [k \in 1..Len(s) |-> LowerTok(s[k])]

Contains(s, tok) == \E k \in 1..Len(s) : s[k] = tok

(***************************************************************************)
(* Timestamp texts.                                                        *)
(***************************************************************************)
TimeText(fmt, lead, t, off) == [fmt |-> fmt, lead |-> lead, t |-> t, off |-> off]

\* The empty string, and a text in no time layout at all.
EmptyText == TimeText("empty", FALSE, 0, 0)
Garbage == TimeText("garbage", FALSE, 0, 0)

\* strings.TrimSpace on a timestamp text.
TrimSpaceTime(v) == [v EXCEPT !.lead = FALSE]

\* An instant, or the failure of a parse.
ParseErr == [ok |-> FALSE, at |-> 0]
ParseOK(at) == [ok |-> TRUE, at |-> at]

\* time.Parse(layout, value): the exact layout only, no surrounding space.
TimeParse(layout, v) ==
    IF v.fmt = layout /\ ~v.lead THEN ParseOK(v.t - v.off) ELSE ParseErr

\* t.UTC().Format(layout)
FormatUTC(layout, at) == TimeText(layout, FALSE, at, 0)

\* The bytes of a timestamp text, for Go's string comparison: a leading
\* space (32), the fixed-width local reading, then the zone designator
\* ('+' 43, '-' 45, 'Z' 90) and its digit.  A text in no layout starts
\* with a letter (110).
Bytes(v) ==
    (IF v.lead THEN <<32>> ELSE <<>>)
    \o CASE v.fmt = "empty" -> <<>>
         [] v.fmt = "garbage" -> <<110>>
         [] OTHER ->
              <<48 + (v.t \div 10), 48 + (v.t % 10)>>
              \o (IF v.off = 0 THEN <<90>>
                  ELSE IF v.off > 0 THEN <<43, 48 + v.off>>
                  ELSE <<45, 48 - v.off>>)

\* a > b on Go strings: byte-wise lexicographic order.
RECURSIVE SeqGreater(_, _)
SeqGreater(a, b) ==
    IF a = <<>> THEN FALSE
    ELSE IF b = <<>> THEN TRUE
    ELSE IF Head(a) # Head(b) THEN Head(a) > Head(b)
    ELSE SeqGreater(Tail(a), Tail(b))

StringGreater(a, b) == SeqGreater(Bytes(a), Bytes(b))

(***************************************************************************)
(* Providers and the items they fetch.                                     *)
(***************************************************************************)
\* feedProviders(): the fixed polling order and the Translate flags.
feedProviders ==
    << [Name |-> "wordpress-releases", Translate |-> TRUE],
       [Name |-> "wordpress-tv", Translate |-> FALSE],
       [Name |-> "wordpress-com", Translate |-> FALSE] >>

ProviderNames == {feedProviders[k].Name : k \in 1..Len(feedProviders)}

\* feed.Item
Item(title, link, pubDate, description, categories) ==
    [Title |-> title, Link |-> link, GUID |-> <<>>, PubDate |-> pubDate,
     Description |-> description, Categories |-> categories]

\* Item{}: the zero item an adapter returns for a feed without items.
ZeroItem == Item(<<>>, <<>>, EmptyText, <<>>, <<>>)

\* An <item> element of an upstream feed.
RawItem(title, link, pubDate, description, encoded, categories) ==
    [Title |-> title, Link |-> link, GUID |-> <<>>, PubDate |-> pubDate,
     Description |-> description, ContentEncoded |-> encoded,
     Categories |-> categories]

\* A dated item with an embedded player; its publish date is padded with
\* white space and given in a +02 zone (instant 20).
RawA ==
    RawItem(<<"A">>, <<"a">>, TimeText("RFC1123Z", TRUE, 22, 2), <<"t">>,
            <<"t", "<iframe", "src", "width", ">", "</iframe>", "t">>,
            << <<"c">>, <<" ">> >>)
\* An item with neither publish date nor link.
RawC ==
    RawItem(<<"C">>, <<" ">>, EmptyText, <<>>, <<>>, <<>>)
\* An item with a blank publish date and a link; upper-case player markup.
RawL ==
    RawItem(<<"L">>, <<"l">>, TimeText("empty", TRUE, 0, 0),
            <<"<IFRAME", "src", ">", "</iframe>">>,
            <<"<IFRAME", "src", ">", "</iframe>">>, <<>>)
\* An item whose title is white space only.
RawW ==
    RawItem(<<" ">>, <<"a">>, TimeText("RFC1123", FALSE, 30, 0), <<"t">>,
            <<>>, <<>>)

RawItems == {RawA, RawC, RawL, RawW}

\* What fetching and decoding one upstream feed can give: an error (network,
\* status or XML), a feed without items, or a feed whose first item is given.
FetchError == [err |-> TRUE, items |-> <<>>]
Responses ==
    {FetchError, [err |-> FALSE, items |-> <<>>]}
    \cup {[err |-> FALSE, items |-> <<r>>] : r \in RawItems}

\* The result of provider.Fetch: (feed.Item, error).
Fetched(err, item) == [err |-> err, item |-> item]

\* The first match of (?is)<iframe\b[^>]*>.*?</iframe>, or "" when none.
FindIframe(s) ==
    LET low == ToLower(s)
        Closes(a) ==
            {c \in a..Len(s) : low[c] = ">"
                /\ \A d \in a..(c - 1) : low[d] # ">"}
        Ends(a) ==
            {e \in a..Len(s) : \E c \in Closes(a) : c < e /\ low[e] = "</iframe>"
                /\ \A d \in (c + 1)..(e - 1) : low[d] # "</iframe>"}
        Starts == {a \in 1..Len(s) : low[a] = "<iframe" /\ Ends(a) # {}}
    IN  IF Starts = {} THEN <<>>
        ELSE LET a == CHOOSE a \in Starts : \A b \in Starts : a <= b
                 e == CHOOSE e \in Ends(a) : TRUE
             IN  SubSeq(s, a, e)

\* A token of the opening tag that is a width or height attribute.
IsSizeAttr(c) == c \in {"width", "height", "WIDTH", "HEIGHT"}

normalizeIframe(value) ==
    IF value = <<>> THEN <<>>
    ELSE IF ~Contains(value, ">") THEN value
    ELSE LET tagEnd == CHOOSE k \in 1..Len(value) :
                          value[k] = ">" /\ \A d \in 1..(k - 1) : value[d] # ">"
             openTag == TrimSpace(SelectSeq(SubSeq(value, 1, tagEnd - 1),
                                            LAMBDA c : ~IsSizeAttr(c)))
             rest == SubSeq(value, tagEnd, Len(value))
         IN  IF ~Contains(openTag, "<iframe") THEN value
             ELSE openTag \o <<"width=100%", "height=auto">> \o rest

extractFirstIframe(value) ==
    IF TrimSpace(value) = <<>> THEN <<>>
    ELSE normalizeIframe(TrimSpace(FindIframe(TrimSpace(value))))

pickEncodedOrDescription(encoded, description) ==
    IF TrimSpace(encoded) # <<>> THEN TrimSpace(encoded)
    ELSE TrimSpace(description)

\* feed.LatestReleases on an upstream response.
LatestReleases(resp) ==
    IF resp.err THEN Fetched(TRUE, ZeroItem)
    ELSE IF Len(resp.items) = 0 THEN Fetched(FALSE, ZeroItem)
    ELSE LET it == resp.items[1]
         IN  Fetched(FALSE, Item(it.Title, it.Link, it.PubDate, it.Description,
                                 it.Categories))

\* feed.LatestWordPressTV on an upstream response.
LatestWordPressTV(resp) ==
    IF resp.err THEN Fetched(TRUE, ZeroItem)
    ELSE IF Len(resp.items) = 0 THEN Fetched(FALSE, ZeroItem)
    ELSE LET it == resp.items[1]
         IN  Fetched(FALSE, Item(it.Title, it.Link, it.PubDate,
                                 extractFirstIframe(it.ContentEncoded),
                                 it.Categories))

\* feed.LatestWordPressComBlog on an upstream response.
LatestWordPressComBlog(resp) ==
    IF resp.err THEN Fetched(TRUE, ZeroItem)
    ELSE IF Len(resp.items) = 0 THEN Fetched(FALSE, ZeroItem)
    ELSE LET it == resp.items[1]
         IN  Fetched(FALSE, Item(it.Title, it.Link, it.PubDate, it.Description,
                                 it.Categories))

\* provider.Fetch(fetchFeed) for the provider of that name.
ProviderFetch(name, resp) ==
    CASE name = "wordpress-releases" -> LatestReleases(resp)
      [] name = "wordpress-tv" -> LatestWordPressTV(resp)
      [] OTHER -> LatestWordPressComBlog(resp)

(***************************************************************************)
(* Identities and entries.                                                 *)
(***************************************************************************)
\* The string an identity is derived from: a trimmed publish date, a trimmed
\* link, or "<provider>-<nanoseconds>".
BaseStr(date, link, prov, nano) ==
    [date |-> date, link |-> link, prov |-> prov, nano |-> nano]

\* The base alone, the provider left out.
JoinedNoProvider(provider, base) ==
    [prov |-> "", bar |-> TRUE, date |-> base.date, link |-> base.link,
     tail |-> base.prov, nano |-> base.nano]

\* provider + "|" + base, and the empty string.
Joined(provider, base) ==
    [prov |-> provider, bar |-> TRUE, date |-> base.date, link |-> base.link,
     tail |-> base.prov, nano |-> base.nano]
EmptyJoined ==
    [prov |-> "", bar |-> FALSE, date |-> EmptyText, link |-> <<>>,
     tail |-> "", nano |-> 0]

\* An identity: the hex digest of a string (the digest taken as injective),
\* "hash-<nanoseconds>", or a text that pickEntryID did not make.
IDOf(kind, value, nanos) == [kind |-> kind, of |-> value, at |-> nanos]
NoID == IDOf("none", EmptyJoined, 0)

\* hashString with its emptiness test inverted.
hashStringInverted(value, nanos) ==
    IF value # EmptyJoined THEN IDOf("hash", EmptyJoined, nanos)
    ELSE IDOf("md5", value, 0)

hashString(value, nanos) ==
    IF value = EmptyJoined THEN IDOf("hash", EmptyJoined, nanos)
    ELSE IDOf("md5", value, 0)

pickEntryID(provider, item, nanos) ==
    LET date == TrimSpaceTime(item.PubDate)
        link == TrimSpace(item.Link)
        base == IF date # EmptyText THEN BaseStr(date, <<>>, "", 0)
                ELSE IF link # <<>> THEN BaseStr(EmptyText, link, "", 0)
                ELSE BaseStr(EmptyText, <<>>, provider, nanos)
    IN  hashString(Joined(provider, base), nanos)

parsePubDate(value) ==
    LET v == TrimSpaceTime(value)
    IN  IF v = EmptyText THEN ParseErr
        ELSE IF TimeParse("RFC1123Z", v).ok THEN TimeParse("RFC1123Z", v)
        ELSE TimeParse("RFC1123", v)

\* time.Now().UTC() at clock reading nanos, in printed units.
ClockUnit(nanos) == NowBase + (nanos \div TicksPerUnit)

\* pickEntryTime handing on the publish date as it is when it does not parse.
pickEntryTimeAsGiven(item, nanos) ==
    LET parsed == parsePubDate(item.PubDate)
    IN  IF ~parsed.ok THEN TrimSpaceTime(item.PubDate)
        ELSE FormatUTC("RFC3339", parsed.at)

pickEntryTime(item, nanos) ==
    LET parsed == parsePubDate(item.PubDate)
    IN  IF ~parsed.ok THEN FormatUTC("RFC3339", ClockUnit(nanos))
        ELSE FormatUTC("RFC3339", parsed.at)

parseTime(value) == TimeParse("RFC3339", TrimSpaceTime(value))

Entry(id, title, link, content, createdAt, categories) ==
    [ID |-> id, Title |-> title, Link |-> link, Content |-> content,
     CreatedAt |-> createdAt, Categories |-> categories]

\* idExists looking at the newest entry only.
idExistsLast(list, id) == Len(list) > 0 /\ list[Len(list)].ID = id

idExists(list, id) == \E k \in 1..Len(list) : list[k].ID = id

cleanCategories(values) ==
    LET trimmed == [k \in 1..Len(values) |-> TrimSpace(values[k])]
    IN  SelectSeq(trimmed, LAMBDA c : c # <<>>)

\* TransformTextByAi: the translation, when it succeeds.
TransformTextByAi(text) == <<"[translated]">> \o text

\* What translateContent returns, and what became of its call of
\* TransformTextByAi ("none": not called).
Translated(text, ai) == [text |-> text, ai |-> ai]

\* translateContent without its test for player markup.
translateContentUngated(text, allow, aiOK) ==
    LET t == TrimSpace(text)
    IN  IF t = <<>> \/ ~allow THEN Translated(t, "none")
        ELSE IF ~aiOK THEN Translated(t, "failed")
        ELSE Translated(TransformTextByAi(t), "ok")

\* translateContent; aiOK: whether the translation call succeeds.
translateContent(text, allow, aiOK) ==
    LET t == TrimSpace(text)
    IN  IF t = <<>> \/ ~allow \/ Contains(ToLower(t), "<iframe")
        THEN Translated(t, "none")
        ELSE IF ~aiOK THEN Translated(t, "failed")
        ELSE Translated(TransformTextByAi(t), "ok")

\* The new entry put in the place of the newest one instead of after it.
AppendEntryReplacing(list, entry) ==
    IF list = <<>> THEN <<entry>> ELSE [list EXCEPT ![Len(list)] = entry]

\* *entries = append(*entries, Entry{...})
AppendEntry(list, entry) == Append(list, entry)

\* The title compared with "" as it came, untrimmed.
TitleIsEmptyUntrimmed(title) == title = <<>>

\* strings.TrimSpace(item.Title) == ""
TitleIsEmpty(title) == TrimSpace(title) = <<>>

\* addLatestFromProvider on the fetch result: (added, err), the entry list
\* and state.Latest it leaves, and what became of the translation call.
addLatestFromProvider(provider, fetched, list, latest, nanos, aiOK) ==
    IF fetched.err THEN
        [added |-> FALSE, err |-> TRUE, entries |-> list, latest |-> latest,
         ai |-> "none"]
    ELSE IF TitleIsEmpty(fetched.item.Title) THEN
        [added |-> FALSE, err |-> FALSE, entries |-> list, latest |-> latest,
         ai |-> "none"]
    ELSE
        LET item == [fetched.item EXCEPT
                        !.Categories = cleanCategories(fetched.item.Categories)]
            id == pickEntryID(provider.Name, item, nanos)
            text == translateContent(item.Description, provider.Translate, aiOK)
        IN  IF idExists(list, id) THEN
                [added |-> FALSE, err |-> FALSE, entries |-> list,
                 latest |-> [latest EXCEPT ![provider.Name] = id],
                 ai |-> "none"]
            ELSE
                [added |-> TRUE, err |-> FALSE,
                 entries |-> AppendEntry(list,
                     Entry(id, item.Title, item.Link, text.text,
                           pickEntryTime(item, nanos), item.Categories)),
                 latest |-> [latest EXCEPT ![provider.Name] = id],
                 ai |-> text.ai]

(***************************************************************************)
(* buildFeed.                                                              *)
(***************************************************************************)
\* The less function with the comparison turned round.
SortLessAscending(a, b) == StringGreater(b.CreatedAt, a.CreatedAt)

\* The less function handed to sort.Slice.
SortLess(a, b) == StringGreater(a.CreatedAt, b.CreatedAt)

\* The orders sort.Slice may leave (it is not stable): every arrangement of
\* the positions in which no element precedes one that is less than it.
RECURSIVE SortOrders(_, _)
SortOrders(list, left) ==
    IF left = {} THEN {<<>>}
    ELSE UNION {
        {<<k>> \o rest : rest \in SortOrders(list, left \ {k})} :
        k \in {m \in left : \A n \in left : ~SortLess(list[n], list[m])} }

SortResults(list) ==
    {[k \in 1..Len(list) |-> list[order[k]]] :
        order \in SortOrders(list, 1..Len(list))}

\* Site{Title: "Wapuugotchi RSS"}: site.json is absent.
SiteTitle == <<"Wapuugotchi RSS">>

\* channel.LastBuildDate ("" leaves the element out: omitempty).
LastBuildDate(sorted) ==
    IF Len(sorted) > 0 /\ parseTime(sorted[1].CreatedAt).ok
    THEN FormatUTC("RFC1123Z", parseTime(sorted[1].CreatedAt).at)
    ELSE EmptyText

\* The item loop without its skip.
IncludedAlways(entry) == TRUE

\* Whether the item loop of buildFeed keeps the entry.
Included(entry) == parseTime(entry.CreatedAt).ok

FeedItem(entry) ==
    [ID |-> entry.ID, Title |-> entry.Title, Link |-> entry.Link,
     PubDate |-> FormatUTC("RFC1123Z", parseTime(entry.CreatedAt).at),
     Description |-> entry.Content, Categories |-> entry.Categories]

FeedItems(sorted) ==
    LET kept == SelectSeq(sorted, Included)
    IN  [k \in 1..Len(kept) |-> FeedItem(kept[k])]

\* The RSS document written to feed.xml, and the absent file.
NoFeed == [present |-> FALSE, Title |-> <<>>, LastBuildDate |-> EmptyText,
           Items |-> <<>>]

FeedDocument(sorted) ==
    [present |-> TRUE, Title |-> SiteTitle,
     LastBuildDate |-> LastBuildDate(sorted), Items |-> FeedItems(sorted)]

(***************************************************************************)
(* The durable artifacts a first run may find.                             *)
(***************************************************************************)
NoLatest == [p \in ProviderNames |-> NoID]

\* An identity written by other means than pickEntryID (a GUID).
TextID(n) == IDOf("text", EmptyJoined, n)

SeedOld == Entry(TextID(1), <<"o">>, <<"o">>, <<"t">>,
                 TimeText("RFC3339", FALSE, 12, 0), <<>>)
\* Stored timestamps that are no RFC 3339 text, one sorting last, one first.
SeedBlank == Entry(TextID(2), <<"e">>, <<"e">>, <<"t">>, EmptyText, <<>>)
SeedGarbage == Entry(TextID(3), <<"g">>, <<"g">>, <<"t">>, Garbage, <<>>)
\* Stored timestamps that parse but are not in the UTC form: a +05 zone
\* (instant 10) and a padded text.
SeedOffset == Entry(TextID(4), <<"z">>, <<"z">>, <<"t">>,
                    TimeText("RFC3339", FALSE, 15, 5), <<>>)
SeedLead == Entry(TextID(5), <<"p">>, <<"p">>, <<"t">>,
                  TimeText("RFC3339", TRUE, 30, 0), <<>>)
\* The entry an earlier run made of RawA for wordpress-tv.
SeedEarlier ==
    addLatestFromProvider(feedProviders[2],
        LatestWordPressTV([err |-> FALSE, items |-> <<RawA>>]),
        <<>>, NoLatest, 0, TRUE).entries[1]

SeedEntryLists ==
    { <<>>,
      <<SeedBlank, SeedEarlier, SeedGarbage>>,
      <<SeedOffset, SeedLead, SeedOld>> }

(***************************************************************************)
(* The run.                                                                *)
(***************************************************************************)
\* Per provider: how often the run polled it, the upstream response, the
\* fetch result, whether an entry was added and what became of the
\* translation call.
NotPolled ==
    [n |-> 0, resp |-> [err |-> FALSE, items |-> <<>>], err |-> FALSE,
     item |-> ZeroItem, added |-> FALSE, ai |-> "none"]

\* No call of fetchFeed in progress.
NoBody == <<>>
NoCall ==
    [pc |-> "idle", source |-> "", attempt |-> 0, replies |-> <<>>,
     err |-> "nil", body |-> NoBody]

\* The process before RunFeedUpdate has loaded anything.
Fresh ==
    /\ state = NoLatest
    /\ entries = <<>>
    /\ idx = 1
    /\ updated = FALSE
    /\ firstErr = "nil"
    /\ result = "none"
    /\ now = 0
    /\ runs = 0
    /\ loaded = <<>>
    /\ polled = [p \in ProviderNames |-> NotPolled]
    /\ writes = {}
    /\ http = NoCall

Init ==
    /\ diskEntries \in SeedEntryLists
    /\ diskState = NoLatest
    /\ diskFeed = NoFeed
    /\ pc = "idle"
    /\ Fresh

\* RunFeedUpdate up to the loop: readJSON of state.json and entries.json;
\* at most maxRuns runs are started.
StartRunUpTo(maxRuns) ==
    /\ pc = "idle"
    /\ runs < maxRuns
    /\ runs' = runs + 1
    /\ now' = now + 1
    /\ state' = diskState
    /\ entries' = diskEntries
    /\ loaded' = diskEntries
    /\ updated' = FALSE
    /\ firstErr' = "nil"
    /\ idx' = 1
    /\ result' = "running"
    /\ polled' = [p \in ProviderNames |-> NotPolled]
    /\ writes' = {}
    /\ pc' = "poll"
    /\ UNCHANGED <<diskState, diskEntries, diskFeed, http>>

StartRun == StartRunUpTo(MaxRuns)

\* The provider polled after this one (an error continues the loop).
NextProvider(k, err) == k + 1

\* The loop's bookkeeping of firstErr.
NextFirstErr(first, err, name) == IF err /\ first = "nil" THEN name ELSE first

\* One iteration of the loop over feedProviders(), the upstream response
\* drawn from the given set.
PollFrom(responses) ==
    /\ pc = "poll"
    /\ idx <= Len(feedProviders)
    /\ \E resp \in responses, aiOK \in BOOLEAN :
        \E fetched \in {ProviderFetch(feedProviders[idx].Name, resp)} :
        \E r \in {addLatestFromProvider(feedProviders[idx], fetched, entries,
                                        state, now, aiOK)} :
            /\ entries' = r.entries
            /\ state' = r.latest
            /\ firstErr' = NextFirstErr(firstErr, r.err, feedProviders[idx].Name)
            /\ updated' = (updated \/ (~r.err /\ r.added))
            /\ idx' = NextProvider(idx, r.err)
            /\ polled' = [polled EXCEPT ![feedProviders[idx].Name] =
                            [n |-> @.n + 1, resp |-> resp, err |-> fetched.err,
                             item |-> fetched.item, added |-> r.added,
                             ai |-> r.ai]]
    /\ now' = now + 1
    /\ UNCHANGED <<diskState, diskEntries, diskFeed, pc, result, runs, loaded,
                   writes, http>>

Poll == PollFrom(Responses)

\* The run failing on any provider error, update or not.
AfterLoopStrict(upd, first) ==
    IF first # "nil" THEN "error"
    ELSE IF ~upd THEN "no update detected"
    ELSE "write"

\* What RunFeedUpdate does after the loop: return firstErr, return nil
\* ("no update detected"), or go on to write.
AfterLoop(upd, first) ==
    IF ~upd /\ first # "nil" THEN "error"
    ELSE IF ~upd THEN "no update detected"
    ELSE "write"

Decide ==
    /\ pc = "poll"
    /\ idx > Len(feedProviders)
    /\ pc' = IF AfterLoop(updated, firstErr) = "write" THEN "writeState" ELSE "done"
    /\ result' = IF AfterLoop(updated, firstErr) = "write" THEN result
                 ELSE AfterLoop(updated, firstErr)
    /\ UNCHANGED <<diskState, diskEntries, diskFeed, state, entries, idx, updated,
                   firstErr, now, runs, loaded, polled, writes, http>>

\* writeJSON(paths.state, state)
WriteState ==
    /\ pc = "writeState"
    /\ diskState' = state
    /\ writes' = writes \cup {"state"}
    /\ pc' = "writeEntries"
    /\ UNCHANGED <<diskEntries, diskFeed, state, entries, idx, updated, firstErr,
                   result, now, runs, loaded, polled, http>>

\* writeJSON(paths.entries, entries)
WriteEntries ==
    /\ pc = "writeEntries"
    /\ diskEntries' = entries
    /\ writes' = writes \cup {"entries"}
    /\ pc' = "buildFeed"
    /\ UNCHANGED <<diskState, diskFeed, state, entries, idx, updated, firstErr,
                   result, now, runs, loaded, polled, http>>

\* buildFeed(site, entries, paths.feed), which sorts the caller's slice in
\* place, and the return of RunFeedUpdate ("update detected").
BuildFeed ==
    /\ pc = "buildFeed"
    /\ \E sorted \in SortResults(entries) :
        /\ entries' = sorted
        /\ diskFeed' = FeedDocument(sorted)
    /\ writes' = writes \cup {"feed"}
    /\ result' = "update detected"
    /\ pc' = "done"
    /\ UNCHANGED <<diskState, diskEntries, state, idx, updated, firstErr, now,
                   runs, loaded, polled, http>>

\* The process exits; nothing in memory survives.
Exit ==
    /\ pc = "done"
    /\ pc' = "idle"
    /\ state' = NoLatest
    /\ entries' = <<>>
    /\ loaded' = <<>>
    /\ idx' = 1
    /\ updated' = FALSE
    /\ firstErr' = "nil"
    /\ polled' = [p \in ProviderNames |-> NotPolled]
    /\ writes' = {}
    /\ UNCHANGED <<diskState, diskEntries, diskFeed, result, now, runs, http>>

Next ==
    \/ StartRun
    \/ Poll
    \/ Decide
    \/ WriteState
    \/ WriteEntries
    \/ BuildFeed
    \/ Exit

Spec == Init /\ [][Next]_vars

(***************************************************************************)
(* Runs in which a write may fail.  os.Create failing leaves the file as   *)
(* it was; a write failing after os.Create leaves a truncated file, which  *)
(* the next run's readJSON reads as nothing (json.Unmarshal rejects it).   *)
(* The upstream feeds are narrowed to an error, an empty feed and RawA.    *)
(***************************************************************************)
MaxFaultRuns == 2

FaultResponses ==
    {FetchError, [err |-> FALSE, items |-> <<>>],
     [err |-> FALSE, items |-> <<RawA>>]}

\* feed.xml created but not written to the end.
BrokenFeed == [present |-> TRUE, Title |-> <<>>, LastBuildDate |-> EmptyText,
               Items |-> <<>>]

\* A failed write that is logged, after which the run goes on.
AfterFailedWriteLogged(artifact) ==
    CASE artifact = "state" -> [pc |-> "writeEntries", result |-> "running"]
      [] artifact = "entries" -> [pc |-> "buildFeed", result |-> "running"]
      [] OTHER -> [pc |-> "done", result |-> "update detected"]

\* Where a failed write leaves the run: writeJSON calls os.Exit(1),
\* buildFeed returns the error and RunFeedUpdate returns it.
AfterFailedWrite(artifact) ==
    IF artifact = "feed" THEN [pc |-> "done", result |-> "error"]
    ELSE [pc |-> "done", result |-> "exit 1"]

StartRunFault == StartRunUpTo(MaxFaultRuns)

PollFault == PollFrom(FaultResponses)

\* writeJSON(paths.state, state) failing
WriteStateFail ==
    /\ pc = "writeState"
    /\ diskState' \in {diskState, NoLatest}
    /\ writes' = writes \cup {"failed"}
    /\ pc' = AfterFailedWrite("state").pc
    /\ result' = AfterFailedWrite("state").result
    /\ UNCHANGED <<diskEntries, diskFeed, state, entries, idx, updated, firstErr,
                   now, runs, loaded, polled, http>>

\* writeJSON(paths.entries, entries) failing
WriteEntriesFail ==
    /\ pc = "writeEntries"
    /\ diskEntries' \in {diskEntries, <<>>}
    /\ writes' = writes \cup {"failed"}
    /\ pc' = AfterFailedWrite("entries").pc
    /\ result' = AfterFailedWrite("entries").result
    /\ UNCHANGED <<diskState, diskFeed, state, entries, idx, updated, firstErr,
                   now, runs, loaded, polled, http>>

\* buildFeed failing at os.Create, file.WriteString or enc.Encode; the
\* slice is sorted by then.
BuildFeedFail ==
    /\ pc = "buildFeed"
    /\ entries' \in SortResults(entries)
    /\ diskFeed' \in {diskFeed, BrokenFeed}
    /\ writes' = writes \cup {"failed"}
    /\ pc' = AfterFailedWrite("feed").pc
    /\ result' = AfterFailedWrite("feed").result
    /\ UNCHANGED <<diskState, diskEntries, state, idx, updated, firstErr, now,
                   runs, loaded, polled, http>>

InitFault ==
    /\ diskEntries = <<>>
    /\ diskState = NoLatest
    /\ diskFeed = NoFeed
    /\ pc = "idle"
    /\ Fresh

NextFault ==
    \/ StartRunFault
    \/ PollFault
    \/ Decide
    \/ WriteState
    \/ WriteStateFail
    \/ WriteEntries
    \/ WriteEntriesFail
    \/ BuildFeed
    \/ BuildFeedFail
    \/ Exit

SpecFault == InitFault /\ [][NextFault]_vars

(***************************************************************************)
(* Runs over upstream items that differ in their publish date: RFC 1123    *)
(* with a numeric zone (RawA), RFC 1123 with a zone name, a text in        *)
(* neither layout, and none.  The runs start from empty artifacts.         *)
(***************************************************************************)
\* A dated item in the layout with a zone name ("... GMT").
RawG ==
    RawItem(<<"G">>, <<"g">>, TimeText("RFC1123", FALSE, 30, 0), <<"t">>,
            <<>>, <<>>)
\* An item whose publish date is in neither layout, padded.
RawN ==
    RawItem(<<"N">>, <<"n">>, TimeText("garbage", TRUE, 0, 0), <<"t">>,
            <<>>, <<>>)

DateResponses ==
    {FetchError} \cup {[err |-> FALSE, items |-> <<r>>] : r \in {RawA, RawG, RawN, RawC}}

PollDates == PollFrom(DateResponses)

InitDates ==
    /\ diskEntries = <<>>
    /\ diskState = NoLatest
    /\ diskFeed = NoFeed
    /\ pc = "idle"
    /\ Fresh

NextDates ==
    \/ StartRun
    \/ PollDates
    \/ Decide
    \/ WriteState
    \/ WriteEntries
    \/ BuildFeed
    \/ Exit

SpecDates == InitDates /\ [][NextDates]_vars

(***************************************************************************)
(* fetchFeed: one call, one action per iteration of its loop.  In a run    *)
(* the call is part of Poll, where FetchError stands for its error         *)
(* returns and for a body that is no XML.                                  *)
(***************************************************************************)
\* for attempt := 0; attempt < 2; attempt++
MaxAttempts == 2
\* http.StatusTooManyRequests
StatusTooManyRequests == 429

\* The source labels the adapters hand to fetch.
Sources == {"wordpress releases", "wordpress tv", "wordpress com"}

Statuses == {199, 200, 204, 299, 300, 404, StatusTooManyRequests, 500}
Bodies == {<<"x">>, <<"y">>}

\* What one request can get: no response (client.Do fails), or a response
\* with a status and a body that io.ReadAll reads to the end or not.
Reply(got, status, body, readOK) ==
    [got |-> got, status |-> status, body |-> body, readOK |-> readOK]
Replies ==
    {Reply(FALSE, 0, NoBody, FALSE)}
    \cup {Reply(TRUE, st, b, r) : st \in Statuses, b \in Bodies, r \in BOOLEAN}

\* The retry taken on every 429, the first attempt or not.
ShouldRetryAlways(status, attempt) == status = StatusTooManyRequests

\* resp.StatusCode == http.StatusTooManyRequests && attempt == 0
ShouldRetry(status, attempt) == status = StatusTooManyRequests /\ attempt = 0

\* An adapter calls fetch(url, source).
FetchCall ==
    /\ pc = "fetch"
    /\ http.pc # "loop"
    /\ \E source \in Sources :
        http' = [NoCall EXCEPT !.pc = "loop", !.source = source]
    /\ UNCHANGED <<diskState, diskEntries, diskFeed, pc, state, entries, idx,
                   updated, firstErr, result, now, runs, loaded, polled, writes>>

\* One iteration of the loop: the request, and what the reply leads to.  A
\* continue that ends the loop falls through to return body, nil.
FetchAttempt ==
    /\ pc = "fetch"
    /\ http.pc = "loop"
    /\ http.attempt < MaxAttempts
    /\ \E reply \in Replies :
        LET seen == [http EXCEPT !.replies = Append(@, reply)]
        IN  http' =
              IF ~reply.got THEN
                  [seen EXCEPT !.pc = "returned", !.err = "transport"]
              ELSE IF ShouldRetry(reply.status, http.attempt) THEN
                  IF http.attempt + 1 < MaxAttempts
                  THEN [seen EXCEPT !.attempt = @ + 1]
                  ELSE [seen EXCEPT !.attempt = @ + 1, !.pc = "returned"]
              ELSE IF reply.status < 200 \/ reply.status >= 300 THEN
                  [seen EXCEPT !.pc = "returned", !.err = "status"]
              ELSE IF ~reply.readOK THEN
                  [seen EXCEPT !.pc = "returned", !.err = "read"]
              ELSE [seen EXCEPT !.pc = "returned", !.body = reply.body]
    /\ UNCHANGED <<diskState, diskEntries, diskFeed, pc, state, entries, idx,
                   updated, firstErr, result, now, runs, loaded, polled, writes>>

InitFetch ==
    /\ diskEntries = <<>>
    /\ diskState = NoLatest
    /\ diskFeed = NoFeed
    /\ pc = "fetch"
    /\ Fresh

NextFetch == FetchCall \/ FetchAttempt

SpecFetch == InitFetch /\ [][NextFetch]_vars

(***************************************************************************)
(* Vocabulary of the properties.                                           *)
(***************************************************************************)
ProviderOf(name) == CHOOSE k \in 1..Len(feedProviders) : feedProviders[k].Name = name

\* The current run polled the provider and it yielded an item with a title.
Yielded(p) ==
    /\ polled[p].n > 0
    /\ ~polled[p].err
    /\ TrimSpace(polled[p].item.Title) # <<>>

\* The item has a publish date or a link left after trimming.
HasBasis(item) ==
    TrimSpaceTime(item.PubDate) # EmptyText \/ TrimSpace(item.Link) # <<>>

\* The identity of a fetched item that has a basis (the clock is not read).
BasisID(p) == pickEntryID(p, polled[p].item, 0)

\* The same fetch result handed to addLatestFromProvider once more, now.
Again(p, list, latest, aiOK) ==
    addLatestFromProvider(feedProviders[ProviderOf(p)],
                          Fetched(polled[p].err, polled[p].item),
                          list, latest, now, aiOK)

\* The second application is a no-op that leaves the provider's marker.
NoOpAgain(p, list, latest, marker) ==
    \A aiOK \in BOOLEAN :
        /\ ~Again(p, list, latest, aiOK).added
        /\ ~Again(p, list, latest, aiOK).err
        /\ Again(p, list, latest, aiOK).entries = list
        /\ Again(p, list, latest, aiOK).latest[p] = marker

\* p is the provider the loop has just polled.
JustPolled(p) == pc = "poll" /\ idx = ProviderOf(p) + 1

IsPrefix(a, b) == Len(a) <= Len(b) /\ SubSeq(b, 1, Len(a)) = a

DistinctIDs(list) ==
    \A a, b \in 1..Len(list) : a # b => list[a].ID # list[b].ID

RunEnded == pc = "done"

(***************************************************************************)
(* C1.  Idempotence of reconciliation.                                     *)
(***************************************************************************)
\* C1 (as claimed): for every provider and every fetched item with a
\* non-empty title, handing the same item to addLatestFromProvider a second
\* time, in the same run or in the next run over the persisted artifacts,
\* creates no entry, leaves the entry list unchanged and leaves
\* state[provider] as the first application set it.
C1_IdempotentAnyItem ==
    \A p \in ProviderNames :
        /\ (JustPolled(p) /\ Yielded(p)) => NoOpAgain(p, entries, state, state[p])
        /\ (RunEnded /\ Yielded(p)) => NoOpAgain(p, diskEntries, diskState, state[p])

\* C1 (amended): the same, for every fetched item with a non-empty title
\* and, after trimming, a non-empty publish date or link.
C1_IdempotentWithBasis ==
    \A p \in ProviderNames :
        /\ (JustPolled(p) /\ Yielded(p) /\ HasBasis(polled[p].item))
              => NoOpAgain(p, entries, state, state[p])
        /\ (RunEnded /\ Yielded(p) /\ HasBasis(polled[p].item))
              => NoOpAgain(p, diskEntries, diskState, state[p])

\* A run that created an entry from an item with a basis has ended.
C1_Witness ==
    /\ RunEnded
    /\ \E p \in ProviderNames :
        Yielded(p) /\ HasBasis(polled[p].item) /\ polled[p].added

(***************************************************************************)
(* C2.  Run outcome.                                                       *)
(***************************************************************************)
\* C2: the run returns an error only if every provider's fetch errored; if
\* at least one provider was polled without error the run returns success.
C2_ErrorOnlyIfAllErrored ==
    RunEnded =>
        /\ (result = "error" => \A p \in ProviderNames : polled[p].err)
        /\ ((\E p \in ProviderNames : polled[p].n > 0 /\ ~polled[p].err)
               => result # "error")

(***************************************************************************)
(* C3.  Persist and rebuild on success.                                    *)
(***************************************************************************)
\* C3: every run that ends successfully has written the reconciliation
\* state and the entry list and has regenerated the feed document, also
\* when it created no entry.
C3_SuccessPersists ==
    (RunEnded /\ result # "error") =>
        /\ writes = {"state", "entries", "feed"}
        /\ diskState = state
        /\ diskFeed.present

(***************************************************************************)
(* C4.  Partial-failure isolation.                                         *)
(***************************************************************************)
\* The provider fetched an item that is new to the entry list the run loaded.
NewItem(p) ==
    /\ Yielded(p)
    /\ HasBasis(polled[p].item) => ~idExists(loaded, BasisID(p))

\* C4: when one provider's fetch errors and another returns a new item,
\* wherever the failing one stands in the order, every provider is polled
\* exactly once, the run returns success and the persisted entry list holds
\* the new entry.
C4_PartialFailure ==
    RunEnded =>
        \A a, b \in ProviderNames :
            (polled[a].n > 0 /\ polled[a].err /\ NewItem(b)) =>
                /\ \A p \in ProviderNames : polled[p].n = 1
                /\ result = "update detected"
                /\ \E k \in 1..Len(diskEntries) :
                      /\ diskEntries[k].ID = state[b]
                      /\ diskEntries[k].Title = polled[b].item.Title
                      /\ diskEntries[k].Link = polled[b].item.Link
                      /\ ~idExists(loaded, diskEntries[k].ID)

\* A run has ended in which the first provider failed and the last one
\* brought a new item.
C4_Witness ==
    /\ RunEnded
    /\ polled["wordpress-releases"].err
    /\ NewItem("wordpress-com")

(***************************************************************************)
(* C5.  Identity uniqueness.                                               *)
(***************************************************************************)
\* C5: no two entries of the entry list, in memory or persisted, share an
\* identity.
C5_UniqueIdentity == DistinctIDs(entries) /\ DistinctIDs(diskEntries)

\* A run over a list that holds an earlier run's entry met the item of that
\* entry again, created nothing for it, and added another provider's entry.
C5_Witness ==
    /\ RunEnded
    /\ \E p, q \in ProviderNames :
        /\ Yielded(p) /\ HasBasis(polled[p].item) /\ ~polled[p].added
        /\ idExists(loaded, BasisID(p))
        /\ polled[q].added
    /\ Len(diskEntries) > Len(loaded)

(***************************************************************************)
(* C6.  Append-only entry list.                                            *)
(***************************************************************************)
\* C6: every step leaves the persisted entry list as it was or extends it:
\* the entries it held stay, in place and field for field.
C6_AppendOnly == [][IsPrefix(diskEntries, diskEntries')]_vars

\* A run that loaded entries has persisted a longer list.
C6_Witness ==
    /\ RunEnded
    /\ loaded # <<>>
    /\ Len(diskEntries) > Len(loaded)

(***************************************************************************)
(* C7.  Latest-marker refresh.                                             *)
(***************************************************************************)
\* C7: when a run ends, for every provider that yielded an item the marker
\* state[provider] is that item's identity, a duplicate having created
\* nothing, and the durable reconciliation state holds that marker.
C7_MarkerRefreshed ==
    RunEnded =>
        \A p \in ProviderNames :
            Yielded(p) =>
                /\ state[p] # NoID
                /\ HasBasis(polled[p].item) => state[p] = BasisID(p)
                /\ (HasBasis(polled[p].item) /\ idExists(loaded, BasisID(p)))
                      => ~polled[p].added
                /\ diskState[p] = state[p]

(***************************************************************************)
(* C8.  Feed ordering.                                                     *)
(***************************************************************************)
\* The instant an item of the document shows as its pubDate.
ItemInstant(it) == TimeParse("RFC1123Z", it.PubDate).at

Descending(items) ==
    \A a, b \in 1..Len(items) :
        a < b => ItemInstant(items[a]) >= ItemInstant(items[b])

\* A stored timestamp in the form addLatestFromProvider writes: RFC 3339,
\* UTC ("Z"), no padding.
Normalised(v) == v.fmt = "RFC3339" /\ ~v.lead /\ v.off = 0

\* Every stored timestamp that is an RFC 3339 text is in the normalised form.
AllNormalised(list) ==
    \A k \in 1..Len(list) :
        list[k].CreatedAt.fmt = "RFC3339" => Normalised(list[k].CreatedAt)

\* C8 (as claimed): for every entry list, the items of the built document
\* are in descending chronological order of their creation timestamps.
C8_DescendingAnyList == diskFeed.present => Descending(diskFeed.Items)

\* C8 (amended): the items of the built document are in descending
\* chronological order whenever every creation timestamp of the entry list
\* that parses is in the normalised UTC form, whatever the order of the list.
C8_DescendingNormalised ==
    (diskFeed.present /\ AllNormalised(diskEntries)) => Descending(diskFeed.Items)

\* A document of three or more items was built from a normalised list that
\* was neither in ascending nor in descending order of time.
C8_Witness ==
    /\ RunEnded
    /\ result = "update detected"
    /\ AllNormalised(diskEntries)
    /\ Len(diskFeed.Items) >= 3
    /\ \E a, b \in 1..Len(diskEntries) :
        /\ a < b
        /\ Normalised(diskEntries[a].CreatedAt)
        /\ Normalised(diskEntries[b].CreatedAt)
        /\ diskEntries[a].CreatedAt.t < diskEntries[b].CreatedAt.t
    /\ \E a, b \in 1..Len(diskEntries) :
        /\ a < b
        /\ Normalised(diskEntries[a].CreatedAt)
        /\ Normalised(diskEntries[b].CreatedAt)
        /\ diskEntries[a].CreatedAt.t > diskEntries[b].CreatedAt.t

(***************************************************************************)
(* C9.  Last-build timestamp.                                              *)
(***************************************************************************)
\* C9: lastBuildDate is the timestamp of the newest item of the document,
\* and it is left out only when the document has no item.  Stated for the
\* entry lists whose parseable timestamps are all in the normalised form,
\* where the order of the items is chronological (C8).
C9_LastBuildIsNewest ==
    (diskFeed.present /\ AllNormalised(diskEntries)) =>
        /\ diskFeed.Items = <<>> => diskFeed.LastBuildDate = EmptyText
        /\ diskFeed.Items # <<>> =>
              /\ diskFeed.LastBuildDate # EmptyText
              /\ \E a \in 1..Len(diskFeed.Items) :
                    diskFeed.LastBuildDate = diskFeed.Items[a].PubDate
              /\ \A a \in 1..Len(diskFeed.Items) :
                    TimeParse("RFC1123Z", diskFeed.LastBuildDate).at
                        >= ItemInstant(diskFeed.Items[a])

(***************************************************************************)
(* C10.  Malformed-timestamp tolerance.                                    *)
(***************************************************************************)
\* The stored text is an RFC 3339 time, white space around it aside.
IsAbsoluteTime(v) == v.fmt = "RFC3339"

\* The number of items of the document that carry the identity.
ItemsWithID(id) ==
    Cardinality({a \in 1..Len(diskFeed.Items) : diskFeed.Items[a].ID = id})

\* C10: when a run has built the document, an entry of the persisted list
\* has an item in it if and only if its creation timestamp parses, and every
\* entry the run loaded whose timestamp does not parse is still in the
\* persisted list when the run ends.
C10_MalformedSkipped ==
    /\ (RunEnded /\ result = "update detected") =>
          \A k \in 1..Len(diskEntries) :
              ItemsWithID(diskEntries[k].ID) =
                  IF IsAbsoluteTime(diskEntries[k].CreatedAt) THEN 1 ELSE 0
    /\ RunEnded =>
          \A k \in 1..Len(loaded) :
              ~IsAbsoluteTime(loaded[k].CreatedAt) =>
                  \E m \in 1..Len(diskEntries) : diskEntries[m] = loaded[k]

\* A run over a list holding unparseable timestamps has built a document
\* with items.
C10_Witness ==
    /\ RunEnded
    /\ result = "update detected"
    /\ \E k \in 1..Len(loaded) : ~IsAbsoluteTime(loaded[k].CreatedAt)
    /\ diskFeed.Items # <<>>

(***************************************************************************)
(* C11.  An item without an embeddable frame.                              *)
(***************************************************************************)
\* The current run polled the provider and the upstream feed had an item.
HasItem(p) ==
    /\ polled[p].n > 0
    /\ ~polled[p].resp.err
    /\ Len(polled[p].resp.items) > 0

\* The first <item> of the upstream feed the provider was polled with.
RawOf(p) == polled[p].resp.items[1]

\* The content holds no <iframe ...>...</iframe> element.
NoFrame(content) == FindIframe(TrimSpace(content)) = <<>>

\* C11: when the content of the item fetched for wordpress-tv holds no
\* iframe element, the normalised content is empty and no entry is created
\* for the item, also when its title is not empty.
C11_NoFrameSkipped ==
    (HasItem("wordpress-tv") /\ NoFrame(RawOf("wordpress-tv").ContentEncoded)) =>
        /\ polled["wordpress-tv"].item.Description = <<>>
        /\ ~polled["wordpress-tv"].added

(***************************************************************************)
(* C12.  Translation gating and non-fatality.                              *)
(***************************************************************************)
\* The entry of the list that carries the identity.
EntryWithID(list, id) == list[CHOOSE k \in 1..Len(list) : list[k].ID = id]

\* C12: the translation is called only for a provider flagged translatable
\* and only on content that is not empty and holds no iframe markup; when
\* the call fails the entry is created all the same, with the untranslated
\* content, the provider's poll is no error and the run does not fail.
C12_TranslationGated ==
    \A p \in ProviderNames :
        /\ polled[p].ai # "none" =>
              /\ feedProviders[ProviderOf(p)].Translate
              /\ TrimSpace(polled[p].item.Description) # <<>>
              /\ \A k \in 1..Len(polled[p].item.Description) :
                    polled[p].item.Description[k] \notin {"<iframe", "<IFRAME"}
        /\ polled[p].ai = "failed" =>
              /\ polled[p].added
              /\ ~polled[p].err
              /\ firstErr # p
              /\ pc = "poll" =>
                    /\ idExists(entries, state[p])
                    /\ EntryWithID(entries, state[p]).Content
                          = TrimSpace(polled[p].item.Description)
              /\ RunEnded =>
                    /\ result = "update detected"
                    /\ idExists(diskEntries, state[p])
                    /\ EntryWithID(diskEntries, state[p]).Content
                          = TrimSpace(polled[p].item.Description)

\* A run in which the translation failed has ended, and the entry is in
\* the persisted list.
C12_Witness ==
    /\ RunEnded
    /\ \E p \in ProviderNames :
        /\ polled[p].ai = "failed"
        /\ idExists(diskEntries, state[p])

(***************************************************************************)
(* C13.  Identity stability.                                               *)
(***************************************************************************)
\* Called again now, pickEntryID gives the item the identity that its call
\* in the poll gave it (state[p]).
SameOnRepeat(p, item) == pickEntryID(p, item, now) = state[p]

\* Under another provider's name pickEntryID gives the item another
\* identity than the call in the poll and than a call now.
DiffersAcross(p, item) ==
    \A q \in ProviderNames \ {p} :
        /\ pickEntryID(q, item, now) # state[p]
        /\ pickEntryID(q, item, now) # pickEntryID(p, item, now)

\* C13 (as claimed): for every provider and every item handed to it,
\* pickEntryID returns the same identity on repeated calls and a different
\* identity for a different provider name.
C13_StableAnyItem ==
    \A p \in ProviderNames :
        (JustPolled(p) /\ Yielded(p)) =>
            SameOnRepeat(p, polled[p].item) /\ DiffersAcross(p, polled[p].item)

\* C13 (amended): for every item with, after trimming, a non-empty publish
\* date or link, pickEntryID returns the same identity on repeated calls;
\* for every item it returns a different identity for a different provider
\* name.
C13_StableWithBasis ==
    \A p \in ProviderNames :
        (JustPolled(p) /\ Yielded(p)) =>
            /\ HasBasis(polled[p].item) => SameOnRepeat(p, polled[p].item)
            /\ DiffersAcross(p, polled[p].item)

\* Two providers were polled with the same item, dated and linked, at
\* different clock readings.
C13_Witness ==
    /\ pc = "poll"
    /\ \E p, q \in ProviderNames :
        /\ p # q
        /\ Yielded(p) /\ Yielded(q)
        /\ HasBasis(polled[p].item)
        /\ polled[p].resp = polled[q].resp
        /\ state[p] # state[q]

(***************************************************************************)
(* C14.  Empty-title no-op.                                                *)
(***************************************************************************)
\* The text is empty or white space only.
BlankText(s) == \A k \in 1..Len(s) : s[k] = " "

\* The step polls provider number k.
Polls(k) == pc = "poll" /\ idx = k /\ idx' = k + 1

\* C14: a poll whose fetch succeeds with an item whose title is empty
\* after trimming creates nothing, is no error, and leaves the entry list
\* and the reconciliation state as they were.
C14_EmptyTitleNoOp ==
    [][\A k \in 1..Len(feedProviders) :
          (/\ Polls(k)
           /\ ~polled'[feedProviders[k].Name].err
           /\ BlankText(polled'[feedProviders[k].Name].item.Title))
          => /\ ~polled'[feedProviders[k].Name].added
             /\ entries' = entries
             /\ state' = state
             /\ firstErr' = firstErr
             /\ updated' = updated]_vars

\* A provider yielded an item with a white-space title after another
\* provider's item had made an entry and set its marker.
C14_Witness ==
    /\ pc = "poll"
    /\ \E p, q \in ProviderNames :
        /\ JustPolled(p)
        /\ HasItem(p)
        /\ polled[p].item.Title # <<>>
        /\ BlankText(polled[p].item.Title)
        /\ polled[q].added
        /\ state[q] # NoID
        /\ state[p] = NoID

(***************************************************************************)
(* C15.  The stored state in the newness decision.                         *)
(***************************************************************************)
\* C15: a fetched item whose identity is the marker the run loaded for its
\* provider from state.json is taken as already seen: no entry is created
\* for it.
C15_MarkerShortCircuits ==
    \A p \in ProviderNames :
        (/\ pc = "poll"
         /\ Yielded(p)
         /\ HasBasis(polled[p].item)
         /\ diskState[p] = BasisID(p))
        => ~polled[p].added

(***************************************************************************)
(* C16.  Persistence errors are fatal.                                     *)
(***************************************************************************)
\* The two lists hold the same entries, in whatever order.
SameEntries(a, b) ==
    /\ Len(a) = Len(b)
    /\ \A k \in 1..Len(a) : \E m \in 1..Len(b) : b[m] = a[k]
    /\ \A m \in 1..Len(b) : \E k \in 1..Len(a) : a[k] = b[m]

\* C16: a run in which the write of state.json, entries.json or feed.xml
\* failed goes on to no further write and ends with a failure; a run that
\* reports "update detected" has written all three, and they hold what the
\* run had in memory.
C16_WriteFailureFatal ==
    /\ "failed" \in writes =>
          /\ RunEnded
          /\ result \in {"exit 1", "error"}
    /\ (RunEnded /\ result = "update detected") =>
          /\ writes = {"state", "entries", "feed"}
          /\ diskState = state
          /\ SameEntries(diskEntries, entries)
          /\ diskFeed = FeedDocument(entries)

\* A run has ended whose write of entries.json failed after state.json had
\* been written.
C16_Witness ==
    /\ RunEnded
    /\ writes = {"state", "failed"}
    /\ result = "exit 1"
    /\ diskState # NoLatest

(***************************************************************************)
(* C17.  Bounded fetch retry.                                              *)
(***************************************************************************)
\* The responses the call received, in order.
Received == SelectSeq(http.replies, LAMBDA r : r.got)

IsSuccessStatus(status) == status >= 200 /\ status <= 299

\* At most two requests, the second only after a first response of 429.
AtMostOneRetry ==
    /\ Len(http.replies) <= 2
    /\ Len(http.replies) = 2 =>
          http.replies[1].got /\ http.replies[1].status = 429

\* The call returned an error and no body.
ReturnedError == http.err # "nil" /\ http.body = NoBody

\* C17 (as claimed): one call of fetchFeed makes at most two requests, the
\* second only when the first response has status 429; when the status of
\* the last response is outside 2xx (a second 429 too) the call returns an
\* error, and otherwise it returns the body of the last response.
C17_BoundedRetry ==
    /\ AtMostOneRetry
    /\ (http.pc = "returned" /\ Received # <<>>) =>
          IF ~IsSuccessStatus(Received[Len(Received)].status) THEN ReturnedError
          ELSE /\ http.err = "nil"
               /\ http.body = Received[Len(Received)].body

\* C17 (amended): the same, but when the status of the last response is
\* within 2xx the call returns the body of that response if the body was
\* read to its end and an error if reading it failed; a request that gets
\* no response ends the call with an error.
C17_BoundedRetryReadable ==
    /\ AtMostOneRetry
    /\ (http.pc = "returned" /\ Received # <<>>) =>
          IF ~IsSuccessStatus(Received[Len(Received)].status) THEN ReturnedError
          ELSE IF ~Received[Len(Received)].readOK THEN ReturnedError
          ELSE /\ http.err = "nil"
               /\ http.body = Received[Len(Received)].body
    /\ (http.pc = "returned" /\ ~http.replies[Len(http.replies)].got) =>
          ReturnedError

\* A call has returned the body of its second response, the first response
\* having been a 429 with another body.
C17_Witness ==
    /\ http.pc = "returned"
    /\ Len(http.replies) = 2
    /\ http.replies[1].status = 429
    /\ http.replies[2].status = 200
    /\ http.replies[1].body # http.replies[2].body
    /\ http.err = "nil"
    /\ http.body = http.replies[2].body

(***************************************************************************)
(* C18.  Content selection.                                                *)
(***************************************************************************)
\* The richer body when it is not blank, else the description.
Preferred(raw) ==
    IF ~BlankText(raw.ContentEncoded) THEN raw.ContentEncoded
    ELSE raw.Description

\* C18: the item wordpress-com hands to the reconciler carries the encoded
\* body of the upstream item when that is non-empty after trimming, and the
\* description otherwise (trimmed or as it is).
C18_EncodedPreferred ==
    HasItem("wordpress-com") =>
        \/ polled["wordpress-com"].item.Description
              = Preferred(RawOf("wordpress-com"))
        \/ polled["wordpress-com"].item.Description
              = TrimSpace(Preferred(RawOf("wordpress-com")))

(***************************************************************************)
(* C19.  Feed and entries agree.                                           *)
(***************************************************************************)
\* The document holds one item for each entry whose timestamp parses, and
\* no other item.
FeedReflects(doc, list) ==
    /\ \A k \in 1..Len(list) :
          Cardinality({a \in 1..Len(doc.Items) : doc.Items[a].ID = list[k].ID})
              = IF IsAbsoluteTime(list[k].CreatedAt) THEN 1 ELSE 0
    /\ \A a \in 1..Len(doc.Items) : idExists(list, doc.Items[a].ID)

\* C19: from artifacts in which feed.xml reflects entries.json, after any
\* runs, aborted ones among them, whenever a run ends with success the
\* document holds exactly one item for each entry of the persisted list
\* whose timestamp parses.
C19_FeedAgreesOnSuccess ==
    (RunEnded /\ result \in {"update detected", "no update detected"}) =>
        FeedReflects(diskFeed, diskEntries)

(***************************************************************************)
(* C20.  State and entries are consistent.                                 *)
(***************************************************************************)
\* C20: from empty artifacts, after any runs, among them runs aborted by a
\* write failure between the two writeJSON calls, every identity that
\* state.json holds is the identity of an entry of entries.json.
C20_StateNamesEntries ==
    (pc = "idle" \/ RunEnded) =>
        \A p \in ProviderNames :
            diskState[p] # NoID => idExists(diskEntries, diskState[p])

(***************************************************************************)
(* C21.  Created entries are publishable.                                  *)
(***************************************************************************)
\* The publish date, white space around it aside, is in one of the two
\* layouts parsePubDate accepts.
IsPubDate(v) == v.fmt \in {"RFC1123Z", "RFC1123"}

\* The entry made of the provider's item has a timestamp in the normalised
\* UTC form: the instant of the publish date when that is in an accepted
\* layout, else a reading of the clock during the run.
StampedFrom(entry, item) ==
    /\ Normalised(entry.CreatedAt)
    /\ IF IsPubDate(item.PubDate)
       THEN entry.CreatedAt.t = item.PubDate.t - item.PubDate.off
       ELSE entry.CreatedAt.t \in NowBase..ClockUnit(now)

\* C21: every entry addLatestFromProvider appends has a creation timestamp
\* in the normalised UTC form, taken from the parsed publish date or from
\* the clock when the publish date is empty or in neither layout; the
\* timestamp parses in buildFeed and the built document holds the entry's
\* item.
C21_CreatedPublishable ==
    \A p \in ProviderNames :
        polled[p].added =>
            /\ idExists(entries, state[p])
            /\ StampedFrom(EntryWithID(entries, state[p]), polled[p].item)
            /\ parseTime(EntryWithID(entries, state[p]).CreatedAt).ok
            /\ (RunEnded /\ result = "update detected") =>
                  ItemsWithID(state[p]) = 1

\* A run has built the document with entries made of an item dated with a
\* zone name, of one whose date is in neither layout and of one dated
\* with a numeric zone.
C21_Witness ==
    /\ RunEnded
    /\ result = "update detected"
    /\ \E p, q, r \in ProviderNames :
        /\ polled[p].added /\ polled[p].item.PubDate.fmt = "RFC1123"
        /\ polled[q].added /\ polled[q].item.PubDate.fmt = "garbage"
        /\ polled[r].added /\ polled[r].item.PubDate.fmt = "RFC1123Z"
    /\ Len(diskFeed.Items) = 3

====
